---------------------------- MODULE Spec2Model ----------------------------
(***************************************************************************)
(* Snailfish numbers (day18): the tree engine of src/day18/src/lib.rs, a   *)
(* heap of nodes with raw parent pointers, and the flattened engine of     *)
(* src/day18/src/list_impl.rs, a vector of (value, depth, position) items. *)
(* Both engines are fed the same input lines and fold them with add.       *)
(***************************************************************************)
EXTENDS Integers, Sequences, FiniteSets, TLC

VARIABLES
    lines,   \* the input: one compound number per line, as parsed text trees
             \* (in ParseSpec: the one line of text, a sequence of characters)
    heap,    \* tree engine: address -> Node (contents and up pointer)
    root,    \* tree engine: address of the accumulator's root node
    tpc,     \* tree engine: position in add/reduce
    tidx,    \* tree engine: number of input lines consumed
    tlog,    \* tree engine: the calls made so far and what they returned
    tmag,    \* tree engine: the magnitude reported, -1 before
    items,   \* flattened engine: the accumulator's items
    lpc,     \* flattened engine: position in add/reduce
    lidx,    \* flattened engine: number of input lines consumed
    llog,    \* flattened engine: the calls made so far and what they returned
    lmag     \* flattened engine: the magnitude reported, -1 before

vars == <<lines, heap, root, tpc, tidx, tlog, tmag, items, lpc, lidx, llog, lmag>>
treeVars == <<heap, root, tpc, tidx, tlog, tmag>>
listVars == <<items, lpc, lidx, llog, lmag>>

-----------------------------------------------------------------------------
(* Program constants *)

\* explode_inner explodes the branch found at this depth
ExplodeDepth == 4
\* try_explode of the flattened engine looks for items at this depth
ListExplodeDepth == 5
\* a leaf of at least this value splits
SplitThreshold == 10
\* leaf values of the tree engine are u8
U8Mod == 256
\* magnitude weights
LeftWeight == 3
RightWeight == 2

(* Bounds of the model *)

\* generated inputs: the number of leaves of the two lines together
MaxLeaves == 7

\* the same bound for the runs checked for termination
MaxFairLeaves == 6

\* the number of nodes a caller of the constructors builds
MaxNodes == 4

\* the number of characters of a line of text given to the parser
MaxText == 5

\* inputs of three lines: the number of leaves of the three lines together
MaxFoldLeaves == 7

\* the number of leaves of a line whose magnitude is taken as parsed
MaxMagLeaves == 6

\* the number of lines of an input of part2
MaxPart2Lines == 3

-----------------------------------------------------------------------------
(* Compound numbers as values: <<v>> is a leaf, <<l, r>> a pair.  They are *)
(* the content of an input line and the meaning of both representations.   *)

IsLeafNum(n) == Len(n) = 1

RECURSIVE NumLeaves(_, _)
\* the in-order leaves of n as [value, depth], n itself being at depth d
NumLeaves(n, d) ==
    IF IsLeafNum(n) THEN << [value |-> n[1], depth |-> d] >>
    ELSE NumLeaves(n[1], d + 1) \o NumLeaves(n[2], d + 1)

RECURSIVE NumItems(_, _, _)
\* the in-order leaves of n as [value, depth, position]
NumItems(n, d, pos) ==
    IF IsLeafNum(n) THEN << [value |-> n[1], depth |-> d, position |-> pos] >>
    ELSE NumItems(n[1], d + 1, "Left") \o NumItems(n[2], d + 1, "Right")

RECURSIVE NumMagnitude(_)
NumMagnitude(n) ==
    IF IsLeafNum(n) THEN n[1]
    ELSE 3 * NumMagnitude(n[1]) + 2 * NumMagnitude(n[2])

\* reduced: every leaf below 10 and no pair nested inside four pairs
LeavesReduced(ls) ==
    \A i \in 1..Len(ls) : ls[i].value <= 9 /\ ls[i].depth <= 4

IsReducedNum(n) == LeavesReduced(NumLeaves(n, 0))


-----------------------------------------------------------------------------
(* Tree engine, lib.rs.  A Node lives at a heap address; `up` is the raw   *)
(* parent pointer (0 for None).  Option values are <<>> (None) or <<x>>.   *)

None == <<>>
Some(x) == <<x>>

\* the element of a set of one element; in The({e(x) : x \in {v}}) the value v
\* is computed once and e uses it as x
The(S) == CHOOSE x \in S : TRUE

\* Contents::Leaf(value) with its up pointer
LeafNode(v, up) ==
    [kind |-> "Leaf", value |-> v, left |-> 0, right |-> 0, up |-> up]

\* Contents::Branch(Branch { left, right }) with its up pointer
BranchNode(l, r, up) ==
    [kind |-> "Branch", value |-> 0, left |-> l, right |-> r, up |-> up]

\* a heap cell that holds no node: never allocated, or dropped
FreeCell ==
    [kind |-> "Free", value |-> 0, left |-> 0, right |-> 0, up |-> 0]

\* the addresses of the live nodes
Live(h) == {a \in 1..Len(h) : h[a].kind # "Free"}

\* Box::new: the lowest address not in use
Alloc(h) ==
    IF \E a \in 1..Len(h) : h[a].kind = "Free"
    THEN CHOOSE a \in 1..Len(h) :
             h[a].kind = "Free" /\ \A b \in 1..(a - 1) : h[b].kind # "Free"
    ELSE Len(h) + 1

\* the heap h with node placed at address a
Store(h, a, node) ==
    IF a = Len(h) + 1 THEN Append(h, node) ELSE [h EXCEPT ![a] = node]

RECURSIVE Drop(_, _)
\* the heap h once the nodes at the addresses of S are dropped
Drop(h, S) ==
    IF S = {} THEN h
    ELSE The({Drop([h EXCEPT ![a] = FreeCell], S \ {a}) : a \in {CHOOSE x \in S : TRUE}})

new_orphan_value(h, v) ==
    The({[heap |-> Store(h, a, LeafNode(v, 0)), node |-> a] : a \in {Alloc(h)}})

\* the up pointer is left unset
new_value_orphan(h, v, parent) ==
    The({[heap |-> Store(h, a, LeafNode(v, 0)), node |-> a] : a \in {Alloc(h)}})

new_value(h, v, parent) ==
    The({[heap |-> Store(h, a, LeafNode(v, parent)), node |-> a] : a \in {Alloc(h)}})

\* the operands end up on the other side
new_pair_swapped(h, l, r) ==
    The({[heap |-> [Store(h, a, BranchNode(r, l, 0)) EXCEPT ![l].up = a, ![r].up = a],
          node |-> a] : a \in {Alloc(h)}})

\* the new root owns left and right; their up pointers are set to it
new_pair(h, l, r) ==
    The({[heap |-> [Store(h, a, BranchNode(l, r, 0)) EXCEPT ![l].up = a, ![r].up = a],
          node |-> a] : a \in {Alloc(h)}})

RECURSIVE parse(_, _)
\* the parser of the tree engine: builds the tree of the text tree n bottom-up,
\* the left operand of a pair before the right one
parse(h, n) ==
    IF IsLeafNum(n) THEN new_orphan_value(h, n[1])
    ELSE The({The({new_pair(r.heap, l.node, r.node) : r \in {parse(l.heap, n[2])}}) :
                 l \in {parse(h, n[1])}})

value(h, self) == IF h[self].kind = "Leaf" THEN Some(h[self].value) ELSE None

branch(h, self) == IF h[self].kind = "Branch" THEN Some(h[self]) ELSE None

RECURSIVE leftmost_grandchild(_, _)
leftmost_grandchild(h, self) ==
    IF h[self].kind = "Leaf" THEN self ELSE leftmost_grandchild(h, h[self].left)

RECURSIVE rightmost_grandchild(_, _)
rightmost_grandchild(h, self) ==
    IF h[self].kind = "Leaf" THEN self ELSE rightmost_grandchild(h, h[self].right)

parent(h, self) == IF h[self].up = 0 THEN None ELSE Some(h[self].up)

\* the left child is compared by content (==) instead of by address (ptr::eq)
is_left_by_content(h, self) ==
    IF parent(h, self) = None THEN None
    ELSE Some(h[h[parent(h, self)[1]].left].kind = h[self].kind
              /\ (h[self].kind = "Leaf" =>
                     h[h[parent(h, self)[1]].left].value = h[self].value))

is_left(h, self) ==
    IF parent(h, self) = None THEN None
    ELSE Some(h[parent(h, self)[1]].left = self)

is_right(h, self) ==
    IF is_left(h, self) = None THEN None ELSE Some(~ is_left(h, self)[1])

RECURSIVE left_parent(_, _)
left_parent(h, self) ==
    IF parent(h, self) = None THEN None
    ELSE IF is_right(h, self)[1] THEN parent(h, self)
    ELSE left_parent(h, parent(h, self)[1])

RECURSIVE right_parent(_, _)
right_parent(h, self) ==
    IF parent(h, self) = None THEN None
    ELSE IF is_left(h, self)[1] THEN parent(h, self)
    ELSE right_parent(h, parent(h, self)[1])

\* the wrong end of the left neighbour's subtree
left_leaf_leftmost(h, self) ==
    LET p == left_parent(h, self)
    IN IF p = None \/ branch(h, p[1]) = None THEN None
       ELSE Some(leftmost_grandchild(h, h[p[1]].left))

left_leaf(h, self) ==
    LET p == left_parent(h, self)
    IN IF p = None \/ branch(h, p[1]) = None THEN None
       ELSE Some(rightmost_grandchild(h, h[p[1]].left))

\* the wrong end of the right neighbour's subtree
right_leaf_rightmost(h, self) ==
    LET p == right_parent(h, self)
    IN IF p = None \/ branch(h, p[1]) = None THEN None
       ELSE Some(rightmost_grandchild(h, h[p[1]].right))

right_leaf(h, self) ==
    LET p == right_parent(h, self)
    IN IF p = None \/ branch(h, p[1]) = None THEN None
       ELSE Some(leftmost_grandchild(h, h[p[1]].right))

RECURSIVE check_legs(_, _)
\* the assertions of check_legs hold from self down
check_legs(h, self) ==
    branch(h, self) # None =>
        /\ parent(h, h[self].left) = Some(self)
        /\ parent(h, h[self].right) = Some(self)
        /\ check_legs(h, h[self].left)
        /\ check_legs(h, h[self].right)

RECURSIVE Subtree(_, _)
\* the addresses owned by the node at a, itself included
Subtree(h, a) ==
    IF h[a].kind = "Leaf" THEN {a}
    ELSE {a} \cup Subtree(h, h[a].left) \cup Subtree(h, h[a].right)

\* contents.replace(new): the old contents are dropped, the up pointer stays
Replace(h, self, node) ==
    The({[Drop(h, freed) EXCEPT ![self] = [node EXCEPT !.up = h[self].up]] :
            freed \in {Subtree(h, self) \ {self}}})

\* the leaf type is four bits wide
AddU4(x, y) == [sum |-> (x + y) % 16, overflow |-> x + y >= 16]

\* u8 addition; an overflow panics (debug) or wraps (release)
AddU8(x, y) == [sum |-> (x + y) % U8Mod, overflow |-> x + y >= U8Mod]

\* the branch one level too high explodes
ExplodesAbove(h, self, depth) ==
    depth = ExplodeDepth - 1 /\ h[self].kind = "Branch"

ExplodesHere(h, self, depth) ==
    depth = ExplodeDepth /\ h[self].kind = "Branch"

NoExplode(h) == [ret |-> FALSE, heap |-> h, panic |-> FALSE]

\* if let Some(left) = self.left_leaf() { .. left.contents.replace(..) }
ExplodeLeft(h, self) ==
    LET ll == left_leaf(h, self)
        sum == AddU8(h[h[self].left].value, h[ll[1]].value)
    IN IF ll = None THEN [heap |-> h, overflow |-> FALSE]
       ELSE [heap |-> Replace(h, ll[1], LeafNode(sum.sum, 0)),
             overflow |-> sum.overflow]

\* the right value is dropped even when there is a right neighbour
ExplodeRightLost(h, self) == [heap |-> h, overflow |-> FALSE]

\* if let Some(right) = self.right_leaf() { .. right.contents.replace(..) }
ExplodeRight(h, self) ==
    LET rl == right_leaf(h, self)
        sum == AddU8(h[h[self].right].value, h[rl[1]].value)
    IN IF rl = None THEN [heap |-> h, overflow |-> FALSE]
       ELSE [heap |-> Replace(h, rl[1], LeafNode(sum.sum, 0)),
             overflow |-> sum.overflow]

\* the body of `if depth == 4 { if let Some(branch) = self.branch() { .. } }`:
\* the debug assertion, the left neighbour, the right neighbour, then
\* self.contents.replace(Contents::Leaf(0))
ExplodeBranch(h, self) ==
    IF ~ (h[h[self].left].kind = "Leaf" /\ h[h[self].right].kind = "Leaf")
    THEN [ret |-> FALSE, heap |-> h, panic |-> TRUE]
    ELSE The({The({[ret |-> TRUE,
                    heap |-> Replace(r.heap, self, LeafNode(0, 0)),
                    panic |-> l.overflow \/ r.overflow] :
                      r \in {ExplodeRight(l.heap, self)}}) :
                 l \in {ExplodeLeft(h, self)}})

RECURSIVE explode_inner(_, _, _)
\* l is what the call on the left branch returned
explode_inner(h, self, depth) ==
    The({IF l.ret \/ l.panic THEN l
         ELSE IF ExplodesHere(l.heap, self, depth) THEN ExplodeBranch(l.heap, self)
         ELSE IF l.heap[self].kind = "Branch"
              THEN explode_inner(l.heap, l.heap[self].right, depth + 1)
              ELSE NoExplode(l.heap) :
            l \in {IF h[self].kind = "Branch"
                   THEN explode_inner(h, h[self].left, depth + 1)
                   ELSE NoExplode(h)}})

\* the root counts as depth 1
try_explode_from_one(h, self) == explode_inner(h, self, 1)

try_explode(h, self) == explode_inner(h, self, 0)

\* a leaf of exactly the threshold is passed over
SplitsAbove(h, self) ==
    h[self].kind = "Leaf" /\ h[self].value > SplitThreshold

SplitsHere(h, self) ==
    h[self].kind = "Leaf" /\ h[self].value >= SplitThreshold

\* the left half rounded up as well
SplitLeftCeil(v) == (v \div 2) + (v % 2)

SplitLeftValue(v) == v \div 2

\* the right half rounded down as well
SplitRightFloor(v) == v \div 2

SplitRightValue(v) == (v \div 2) + (v % 2)

\* the body of `if value >= 10 { .. }`
SplitLeaf(h, self) ==
    The({The({[r.heap EXCEPT ![self] = BranchNode(l.node, r.node, h[self].up)] :
                 r \in {new_value(l.heap, SplitRightValue(h[self].value), self)}}) :
            l \in {new_value(h, SplitLeftValue(h[self].value), self)}})

RECURSIVE try_split_past_left(_, _)
\* `branch.left.try_split();` without the early return: the scan goes on
\* past a split on the left and returns what the rest of the scan returns
try_split_past_left(h, self) ==
    The({IF SplitsHere(l.heap, self)
         THEN [ret |-> TRUE, heap |-> SplitLeaf(l.heap, self)]
         ELSE IF l.heap[self].kind = "Branch"
              THEN try_split_past_left(l.heap, l.heap[self].right)
              ELSE [ret |-> FALSE, heap |-> l.heap] :
            l \in {IF h[self].kind = "Branch"
                   THEN try_split_past_left(h, h[self].left)
                   ELSE [ret |-> FALSE, heap |-> h]}})

RECURSIVE try_split(_, _)
\* l is what the call on the left branch returned
try_split(h, self) ==
    The({IF l.ret THEN l
         ELSE IF SplitsHere(l.heap, self)
              THEN [ret |-> TRUE, heap |-> SplitLeaf(l.heap, self)]
         ELSE IF l.heap[self].kind = "Branch"
              THEN try_split(l.heap, l.heap[self].right)
              ELSE [ret |-> FALSE, heap |-> l.heap] :
            l \in {IF h[self].kind = "Branch"
                   THEN try_split(h, h[self].left)
                   ELSE [ret |-> FALSE, heap |-> h]}})

\* the weights the other way round
BranchMagnitudeSwapped(l, r) == (l * RightWeight) + (r * LeftWeight)

\* (branch.left.magnitude() * 3) + (branch.right.magnitude() * 2)
BranchMagnitude(l, r) == (l * LeftWeight) + (r * RightWeight)

RECURSIVE magnitude(_, _)
magnitude(h, self) ==
    IF h[self].kind = "Leaf" THEN h[self].value
    ELSE BranchMagnitude(magnitude(h, h[self].left), magnitude(h, h[self].right))

RECURSIVE ToNum(_, _)
\* the compound number a tree stands for (what Debug prints, what == compares)
ToNum(h, self) ==
    IF h[self].kind = "Leaf" THEN << h[self].value >>
    ELSE << ToNum(h, h[self].left), ToNum(h, h[self].right) >>

-----------------------------------------------------------------------------
(* Flattened engine, list_impl.rs.  A number is the vector of its leaves;  *)
(* an Item is [value, depth, position].  Indexes are 1-based here.         *)
(* Item values are u64 and stay far below 2^64 in every run of this model. *)

\* magnitude collapses levels 4, 3, 2, 1
MagnitudeTopLevel == 4

Item(v, d, pos) == [value |-> v, depth |-> d, position |-> pos]

\* Vec::remove
Remove(its, i) == SubSeq(its, 1, i - 1) \o SubSeq(its, i + 1, Len(its))

\* Vec::insert: the new item ends up at index i
Insert(its, i, it) == SubSeq(its, 1, i - 1) \o << it >> \o SubSeq(its, i, Len(its))

\* the last index that passes, instead of the first
FirstFromEnd(S) == CHOOSE i \in S : \A j \in S : i >= j

\* Iterator::next after filter: the first index that passes
First(S) == CHOOSE i \in S : \A j \in S : i <= j

DigitChars == {"0", "1", "2", "3", "4", "5", "6", "7", "8", "9"}

DigitValue(ch) ==
    CASE ch = "0" -> 0 [] ch = "1" -> 1 [] ch = "2" -> 2 [] ch = "3" -> 3
      [] ch = "4" -> 4 [] ch = "5" -> 5 [] ch = "6" -> 6 [] ch = "7" -> 7
      [] ch = "8" -> 8 [] ch = "9" -> 9

RECURSIVE DecimalValue(_)
DecimalValue(s) ==
    IF s = << >> THEN 0
    ELSE 10 * DecimalValue(SubSeq(s, 1, Len(s) - 1)) + DigitValue(s[Len(s)])

\* str::parse::<u64>: digits only (the texts of this model stay below 2^64)
ParseU64(s) ==
    IF s # << >> /\ \A i \in 1..Len(s) : s[i] \in DigitChars
    THEN [ok |-> TRUE, value |-> DecimalValue(s)]
    ELSE [ok |-> FALSE, value |-> 0]

RECURSIVE from_str_loop(_, _, _, _, _)
\* the for loop of from_str; number_start_idx is 0 for None; depth is a u8,
\* so closing a bracket at depth 0 overflows (panic in debug, wrap in release)
from_str_loop(s, idx, depth, number_start_idx, its) ==
    IF idx > Len(s) THEN [result |-> "Ok", items |-> its]
    ELSE LET ch == s[idx]
             num == ParseU64(SubSeq(s, number_start_idx, idx - 1))
         IN CASE ch = "[" ->
                   from_str_loop(s, idx + 1, depth + 1, number_start_idx, its)
              [] ch \in DigitChars ->
                   from_str_loop(s, idx + 1, depth,
                       IF number_start_idx = 0 THEN idx ELSE number_start_idx, its)
              [] ch = "," ->
                   IF number_start_idx = 0
                   THEN from_str_loop(s, idx + 1, depth, 0, its)
                   ELSE IF ~ num.ok THEN [result |-> "ListParseError", items |-> << >>]
                   ELSE from_str_loop(s, idx + 1, depth, 0,
                            Append(its, Item(num.value, depth, "Left")))
              [] ch = "]" ->
                   IF number_start_idx # 0 /\ ~ num.ok
                   THEN [result |-> "ListParseError", items |-> << >>]
                   ELSE IF depth = 0 THEN [result |-> "Overflow", items |-> << >>]
                   ELSE from_str_loop(s, idx + 1, depth - 1, 0,
                            IF number_start_idx = 0 THEN its
                            ELSE Append(its, Item(num.value, depth, "Right")))
              [] OTHER -> [result |-> "ListParseError", items |-> << >>]

from_str(s) == from_str_loop(s, 1, 0, 0, << >>)

RECURSIVE Deepen(_)
\* for item in self.items.iter_mut() { item.depth += 1 }
Deepen(its) ==
    IF its = << >> THEN << >>
    ELSE << [its[1] EXCEPT !.depth = @ + 1] >> \o Deepen(Tail(its))

\* the loop runs before the append: the items of other keep their depth
list_add_deepen_first(self, other) == Deepen(self) \o other

\* self.items.append(&mut other.items), then depth += 1 on every item
list_add(self, other) == Deepen(self \o other)

\* the window one level too high matches
ExplodeWindowShallow(its, i, level) ==
    /\ its[i].depth = level - 1
    /\ its[i + 1].depth = level - 1
    /\ its[i].position = "Left"
    /\ its[i + 1].position = "Right"

ExplodeWindow(its, i, level) ==
    /\ its[i].depth = level
    /\ its[i + 1].depth = level
    /\ its[i].position = "Left"
    /\ its[i + 1].position = "Right"

\* Right after any Left, whatever its depth
CollapsedPositionAfterLeft(its, left_idx) ==
    IF left_idx > 1 /\ its[left_idx - 1].position = "Left" THEN "Right" ELSE "Left"

\* the position given to a collapsed pair: Right only after a Left one level up
CollapsedPosition(its, left_idx) ==
    IF /\ left_idx > 1
       /\ its[left_idx - 1].position = "Left"
       /\ its[left_idx - 1].depth + 1 = its[left_idx].depth
    THEN "Right" ELSE "Left"

\* the body of `if let Some(left_idx) = .. { .. }` of try_explode
ListExplodeAt(its, left_idx) ==
    LET right_idx == left_idx + 1
        its1 == IF left_idx > 1
                THEN [its EXCEPT ![left_idx - 1].value = @ + its[left_idx].value]
                ELSE its
        position == CollapsedPosition(its1, left_idx)
        subsequent_idx == right_idx + 1
        its2 == IF subsequent_idx <= Len(its1)
                THEN [its1 EXCEPT ![subsequent_idx].value = @ + its1[right_idx].value]
                ELSE its1
        its3 == [its2 EXCEPT ![left_idx] =
                    Item(0, its2[left_idx].depth - 1, position)]
    IN Remove(its3, right_idx)

list_try_explode(its) ==
    LET hits == {i \in 1..(Len(its) - 1) : ExplodeWindow(its, i, ListExplodeDepth)}
    IN IF hits = {} THEN [ret |-> FALSE, items |-> its]
       ELSE [ret |-> TRUE, items |-> ListExplodeAt(its, First(hits))]

\* the new item gets the half rounded down as well
ListSplitAtFloor(its, idx) ==
    LET v == its[idx].value
        its1 == [its EXCEPT ![idx] = Item(v \div 2, its[idx].depth + 1, "Left")]
        new_item == Item(v \div 2, its1[idx].depth, "Right")
    IN Insert(its1, idx + 1, new_item)

\* the body of `if let Some(idx) = .. { .. }` of try_split
ListSplitAt(its, idx) ==
    LET v == its[idx].value
        its1 == [its EXCEPT ![idx] = Item(v \div 2, its[idx].depth + 1, "Left")]
        new_item == Item((v \div 2) + (v % 2), its1[idx].depth, "Right")
    IN Insert(its1, idx + 1, new_item)

list_try_split(its) ==
    LET hits == {i \in 1..Len(its) : its[i].value >= SplitThreshold}
    IN IF hits = {} THEN [ret |-> FALSE, items |-> its]
       ELSE [ret |-> TRUE, items |-> ListSplitAt(its, First(hits))]

\* the body of the while-let loop of magnitude
MagnitudeCollapse(its, left_idx) ==
    LET right_idx == left_idx + 1
        position == CollapsedPosition(its, left_idx)
        its1 == [its EXCEPT ![left_idx] =
                    Item((LeftWeight * its[left_idx].value)
                             + (RightWeight * its[right_idx].value),
                         its[left_idx].depth - 1, position)]
    IN Remove(its1, right_idx)

\* `if let` in place of `while let`: one pair is collapsed at each level
MagnitudeLevelOnce(its, level) ==
    LET hits == {i \in 1..(Len(its) - 1) : ExplodeWindow(its, i, level)}
    IN IF hits = {} THEN its ELSE MagnitudeCollapse(its, First(hits))

RECURSIVE MagnitudeLevel(_, _)
\* the while-let loop of magnitude at one level
MagnitudeLevel(its, level) ==
    LET hits == {i \in 1..(Len(its) - 1) : ExplodeWindow(its, i, level)}
    IN IF hits = {} THEN its
       ELSE The({MagnitudeLevel(its1, level) :
                    its1 \in {MagnitudeCollapse(its, First(hits))}})

RECURSIVE MagnitudeLevels(_, _)
\* for level in (1..=4).rev()
MagnitudeLevels(its, level) ==
    IF level < 1 THEN its
    ELSE The({MagnitudeLevels(its1, level - 1) : its1 \in {MagnitudeLevel(its, level)}})

\* the levels are collapsed in self.items, not in a clone
list_magnitude_in_place(its) ==
    The({[panic |-> Len(r) # 1, value |-> IF Len(r) >= 1 THEN r[1].value ELSE 0,
          items |-> r] :
            r \in {MagnitudeLevels(its, MagnitudeTopLevel)}})

\* let mut items = self.items.clone(); the levels are collapsed in the clone;
\* debug_assert_eq!(items.len(), 1); items[0].value.  The field items of the
\* result is self.items once the call is over.
list_magnitude(its) ==
    The({[panic |-> Len(r) # 1, value |-> IF Len(r) >= 1 THEN r[1].value ELSE 0,
          items |-> its] :
            r \in {MagnitudeLevels(its, MagnitudeTopLevel)}})

-----------------------------------------------------------------------------
(* The input.  Each line holds one compound number.  The generated inputs  *)
(* are two lines, each a pair, both reduced, with at most MaxLeaves leaves *)
(* in all.  The corpus holds the inputs of the tests of lib.rs and         *)
(* list_impl.rs, among them lines that are a single leaf.                  *)

L(v) == << v >>
P(l, r) == << l, r >>

\* leaf values of the generated inputs
LeafVals == {1, SplitThreshold - 1}

RECURSIVE Nums(_, _)
\* the numbers with exactly n leaves, none nested inside more than d pairs
Nums(n, d) ==
    IF n = 1 THEN {L(v) : v \in LeafVals}
    ELSE IF d = 0 THEN {}
    ELSE UNION {{P(l, r) : l \in Nums(k, d - 1), r \in Nums(n - k, d - 1)} :
                   k \in 1..(n - 1)}

\* the inputs of two lines, each a pair, with at most n leaves in all
Lines(n) ==
    UNION {{<< a, b >> : a \in Nums(split[1], ExplodeDepth),
                         b \in Nums(split[2], ExplodeDepth)} :
              split \in {s \in (2..n) \X (2..n) : s[1] + s[2] <= n}}

GeneratedLines == Lines(MaxLeaves)

Corpus ==
    {
      \* simple_addition_example
      << P(L(1), L(2)),
         P(P(L(3), L(4)), L(5)) >>,
      \* multistage_addition_example
      << P(P(P(P(L(4), L(3)), L(4)), L(4)), P(L(7), P(P(L(8), L(4)), L(9)))),
         P(L(1), L(1)) >>,
      \* example_sums (SUM_3)
      << P(L(1), L(1)),
         P(L(2), L(2)),
         P(L(3), L(3)),
         P(L(4), L(4)),
         P(L(5), L(5)),
         P(L(6), L(6)) >>,
      \* constructed_cases, first case
      << P(P(P(L(0), P(L(5), L(8))), P(P(L(1), L(7)), P(L(9), L(6)))), P(P(L(4), P(L(1), L(2))), P(P(L(1), L(4)), L(2)))),
         P(P(P(L(5), P(L(2), L(8))), L(4)), P(L(5), P(P(L(9), L(9)), L(0)))) >>,
      \* explode
      << P(P(P(P(P(L(9), L(8)), L(1)), L(2)), L(3)), L(4)) >>,
      \* explode
      << P(L(7), P(L(6), P(L(5), P(L(4), P(L(3), L(2)))))) >>,
      \* explode
      << P(P(L(6), P(L(5), P(L(4), P(L(3), L(2))))), L(1)) >>,
      \* explode
      << P(P(L(3), P(L(2), P(L(1), P(L(7), L(3))))), P(L(6), P(L(5), P(L(4), P(L(3), L(2)))))) >>,
      \* explode
      << P(P(P(P(L(7), L(7)), P(L(7), L(0))), P(P(L(7), L(8)), P(L(8), L(7)))), P(P(P(L(6), L(7)), P(L(6), P(L(6), L(7)))), P(P(L(0), L(7)), P(L(17), L(0))))) >>,
      \* split
      << L(10) >>,
      \* split
      << L(11) >>,
      \* split
      << L(12) >>,
      \* split (list_impl)
      << P(L(0), L(11)) >>,
      \* example_magnitudes
      << P(L(9), L(1)) >>,
      \* example_magnitudes
      << P(P(L(9), L(1)), P(L(1), L(9))) >>,
      \* example_magnitudes
      << P(P(P(P(L(8), L(7)), P(L(7), L(7))), P(P(L(8), L(6)), P(L(7), L(7)))), P(P(P(L(0), L(7)), P(L(6), L(6))), P(L(8), L(7)))) >>,
      \* two single-leaf numbers
      << L(5),
         L(7) >>
    }

RECURSIVE Digits(_)
Digits(v) ==
    LET d == CHOOSE ch \in DigitChars : DigitValue(ch) = v % 10
    IN IF v < 10 THEN << d >> ELSE Digits(v \div 10) \o << d >>

RECURSIVE Text(_)
\* the line of the input file that holds n
Text(n) ==
    IF IsLeafNum(n) THEN Digits(n[1])
    ELSE << "[" >> \o Text(n[1]) \o << "," >> \o Text(n[2]) \o << "]" >>

-----------------------------------------------------------------------------
(* The run.  Both engines do what part1 does: parse the first line, add    *)
(* every further line to the accumulator, take the magnitude.  Between the *)
(* last add and the magnitude, reduce is called once on the accumulator,   *)
(* the way the tests of both files call try_explode and try_split on a     *)
(* number they parsed: this is the only call of reduce on a number that    *)
(* add did not just pair.  The engines share no state; they take turns,    *)
(* the tree engine first, so that states in which both have made the same  *)
(* number of calls can be compared.                                        *)

Called(log, what) == \E i \in 1..Len(log) : log[i].op = what

Last(log) == log[Len(log)]

TreeFinished == tpc = "panic" \/ Called(tlog, "magnitude")
ListFinished == lpc = "panic" \/ Called(llog, "magnitude")

TreeTurn == Len(tlog) <= Len(llog) \/ ListFinished
ListTurn == Len(llog) < Len(tlog) \/ TreeFinished

\* the scan that applied a step is repeated, instead of the explode scan
reduce_same_scan(op, applied) ==
    IF applied THEN op
    ELSE IF op = "try_explode" THEN "try_split" ELSE "done"

\* the loop of reduce: which call follows a call of op that returned applied
reduce(op, applied) ==
    IF applied THEN "try_explode"
    ELSE IF op = "try_explode" THEN "try_split" ELSE "done"

\* after a split the split scan is repeated
list_reduce_split_again(op, applied) ==
    IF applied THEN IF op = "try_split" THEN "try_split" ELSE "try_explode"
    ELSE IF op = "try_explode" THEN "try_split" ELSE "done"

\* the same loop in list_impl.rs
list_reduce(op, applied) ==
    IF applied THEN "try_explode"
    ELSE IF op = "try_explode" THEN "try_split" ELSE "done"

\* a log entry: the call and, for try_explode and try_split, what it returned
Call(op, ret) == [op |-> op, ret |-> ret]

\* the state once the first line of an input of Input is read
InitFrom(Input) ==
    /\ lines \in Input
    /\ \E first \in {parse(<< >>, lines[1])} :
          heap = first.heap /\ root = first.node
    /\ tpc = "idle"
    /\ tidx = 1
    /\ tlog = << >>
    /\ tmag = -1
    /\ \E line \in {Text(lines[1])} : items = from_str(line).items
    /\ lpc = "idle"
    /\ lidx = 1
    /\ llog = << >>
    /\ lmag = -1

Init == InitFrom(GeneratedLines \cup Corpus)

\* the runs checked for termination
FairInit == InitFrom(Lines(MaxFairLeaves) \cup Corpus)

\* acc.add(item): new_pair, then reduce is entered
TreeAdd ==
    /\ TreeTurn
    /\ tpc \in {"idle", "done"}
    /\ tidx < Len(lines)
    /\ \E item \in {parse(heap, lines[tidx + 1])} :
          \E sfn \in {new_pair(item.heap, root, item.node)} :
             heap' = sfn.heap /\ root' = sfn.node
    /\ tpc' = "try_explode"
    /\ tidx' = tidx + 1
    /\ tlog' = Append(tlog, Call("add", TRUE))
    /\ UNCHANGED << lines, tmag, listVars >>

\* reduce called on the accumulator once all lines are added
TreeReduce ==
    /\ TreeTurn
    /\ tpc \in {"idle", "done"}
    /\ tidx = Len(lines)
    /\ ~ Called(tlog, "reduce")
    /\ tpc' = "try_explode"
    /\ tlog' = Append(tlog, Call("reduce", TRUE))
    /\ UNCHANGED << lines, heap, root, tidx, tmag, listVars >>

TreeTryExplode ==
    /\ TreeTurn
    /\ tpc = "try_explode"
    /\ \E r \in {try_explode(heap, root)} :
          /\ heap' = r.heap
          /\ tpc' = IF r.panic THEN "panic" ELSE reduce("try_explode", r.ret)
          /\ tlog' = Append(tlog, Call("try_explode", r.ret))
    /\ UNCHANGED << lines, root, tidx, tmag, listVars >>

TreeTrySplit ==
    /\ TreeTurn
    /\ tpc = "try_split"
    /\ \E r \in {try_split(heap, root)} :
          /\ heap' = r.heap
          /\ tpc' = reduce("try_split", r.ret)
          /\ tlog' = Append(tlog, Call("try_split", r.ret))
    /\ UNCHANGED << lines, root, tidx, tmag, listVars >>

\* sum.magnitude()
TreeMagnitude ==
    /\ TreeTurn
    /\ tpc \in {"idle", "done"}
    /\ tidx = Len(lines)
    /\ Called(tlog, "reduce")
    /\ ~ Called(tlog, "magnitude")
    /\ tmag' = magnitude(heap, root)
    /\ tlog' = Append(tlog, Call("magnitude", TRUE))
    /\ UNCHANGED << lines, heap, root, tpc, tidx, listVars >>

\* acc.add(item) of the flattened engine: append, deepen, then reduce is entered
ListAdd ==
    /\ ListTurn
    /\ lpc \in {"idle", "done"}
    /\ lidx < Len(lines)
    /\ \E line \in {Text(lines[lidx + 1])} :
          \E item \in {from_str(line)} :
             items' = list_add(items, item.items)
    /\ lpc' = "try_explode"
    /\ lidx' = lidx + 1
    /\ llog' = Append(llog, Call("add", TRUE))
    /\ UNCHANGED << lines, lmag, treeVars >>

ListReduce ==
    /\ ListTurn
    /\ lpc \in {"idle", "done"}
    /\ lidx = Len(lines)
    /\ ~ Called(llog, "reduce")
    /\ lpc' = "try_explode"
    /\ llog' = Append(llog, Call("reduce", TRUE))
    /\ UNCHANGED << lines, items, lidx, lmag, treeVars >>

ListTryExplode ==
    /\ ListTurn
    /\ lpc = "try_explode"
    /\ \E r \in {list_try_explode(items)} :
          /\ items' = r.items
          /\ lpc' = list_reduce("try_explode", r.ret)
          /\ llog' = Append(llog, Call("try_explode", r.ret))
    /\ UNCHANGED << lines, lidx, lmag, treeVars >>

ListTrySplit ==
    /\ ListTurn
    /\ lpc = "try_split"
    /\ \E r \in {list_try_split(items)} :
          /\ items' = r.items
          /\ lpc' = list_reduce("try_split", r.ret)
          /\ llog' = Append(llog, Call("try_split", r.ret))
    /\ UNCHANGED << lines, lidx, lmag, treeVars >>

\* sum.magnitude() of the flattened engine; it panics when the items do not
\* collapse to one
ListMagnitude ==
    /\ ListTurn
    /\ lpc \in {"idle", "done"}
    /\ lidx = Len(lines)
    /\ Called(llog, "reduce")
    /\ ~ Called(llog, "magnitude")
    /\ \E m \in {list_magnitude(items)} :
          /\ lmag' = m.value
          /\ items' = m.items
          /\ lpc' = IF m.panic THEN "panic" ELSE lpc
    /\ llog' = Append(llog, Call("magnitude", TRUE))
    /\ UNCHANGED << lines, lidx, treeVars >>

Next ==
    \/ TreeAdd
    \/ TreeReduce
    \/ TreeTryExplode
    \/ TreeTrySplit
    \/ TreeMagnitude
    \/ ListAdd
    \/ ListReduce
    \/ ListTryExplode
    \/ ListTrySplit
    \/ ListMagnitude

Spec == Init /\ [][Next]_vars

\* reduce and magnitude run to completion: a call that can be made is made
FairSpec == FairInit /\ [][Next]_vars /\ WF_vars(Next)

\* the inputs of three lines, each a pair, with at most n leaves in all
Triples(n) ==
    UNION {{<< a, b, c >> : a \in Nums(split[1], ExplodeDepth),
                            b \in Nums(split[2], ExplodeDepth),
                            c \in Nums(split[3], ExplodeDepth)} :
              split \in {s \in (2..n) \X (2..n) \X (2..n) : s[1] + s[2] + s[3] <= n}}

\* the runs that fold three lines and more
FoldInit == InitFrom(Triples(MaxFoldLeaves) \cup Corpus)

FoldSpec == FoldInit /\ [][Next]_vars

\* the inputs of one line, a pair of at most n leaves, as the parser of the
\* flattened engine accepts and try_explode expects them: no leaf nested
\* inside more than five pairs
ParsedLines(n) ==
    {<< a >> : a \in UNION {Nums(k, ListExplodeDepth) : k \in 2..n}}

\* example_magnitudes: parse(input).magnitude()
MagInit == InitFrom(ParsedLines(MaxMagLeaves))

\* magnitude of the tree engine on the number as parsed
ParsedTreeMagnitude ==
    /\ tlog = << >>
    /\ tmag' = magnitude(heap, root)
    /\ tlog' = Append(tlog, Call("magnitude", TRUE))
    /\ UNCHANGED << lines, heap, root, tpc, tidx, listVars >>

\* magnitude of the flattened engine on the number as parsed
ParsedListMagnitude ==
    /\ llog = << >>
    /\ \E m \in {list_magnitude(items)} :
          /\ lmag' = m.value
          /\ items' = m.items
          /\ lpc' = IF m.panic THEN "panic" ELSE lpc
    /\ llog' = Append(llog, Call("magnitude", TRUE))
    /\ UNCHANGED << lines, lidx, treeVars >>

MagNext ==
    \/ ParsedTreeMagnitude
    \/ ParsedListMagnitude

MagSpec == MagInit /\ [][MagNext]_vars

\* well-formed lines in which a pair of pairs is nested inside four pairs,
\* at once or as soon as the line is added to
DeepLines ==
    {
      << P(P(P(P(P(P(L(1), L(1)), P(L(1), L(1))), P(L(1), L(1))), L(1)), L(1)), L(1)) >>,
      << P(P(P(P(P(L(1), L(1)), P(L(1), L(1))), P(L(1), L(1))), L(1)), L(1)),
         P(L(1), L(1)) >>
    }

\* the runs of Spec and the runs on the lines above
DeepInit == InitFrom(GeneratedLines \cup Corpus \cup DeepLines)

DeepSpec == DeepInit /\ [][Next]_vars

-----------------------------------------------------------------------------
(* A caller of the public constructors of Node.  It owns the boxes that no *)
(* branch holds; root is the box the last constructor returned.  The       *)
(* flattened engine takes no part.                                         *)

\* the boxes the caller owns
Owned(h) ==
    {a \in Live(h) :
        \A b \in Live(h) : h[b].kind = "Branch" => a \notin {h[b].left, h[b].right}}

\* values the caller puts in leaves
NodeVals == {1, 2}

\* a log entry of a constructor call: what it was given, whether it returned a node
NodeCall(op, ret, args) == [op |-> op, ret |-> ret, args |-> args]

NodeInit ==
    /\ lines = << >>
    /\ heap = << >>
    /\ root = 0
    /\ tpc = "idle"
    /\ tidx = 0
    /\ tlog = << >>
    /\ tmag = -1
    /\ items = << >>
    /\ lpc = "idle"
    /\ lidx = 0
    /\ llog = << >>
    /\ lmag = -1

\* Node::new_orphan_value(v)
NewOrphanValue ==
    /\ Cardinality(Live(heap)) < MaxNodes
    /\ \E v \in NodeVals :
          \E n \in {new_orphan_value(heap, v)} :
             /\ heap' = n.heap
             /\ root' = n.node
             /\ tlog' = Append(tlog, NodeCall("new_orphan_value", TRUE, << v >>))
    /\ UNCHANGED << lines, tpc, tidx, tmag, listVars >>

\* Node::new_value(v, &parent), parent being a box the caller owns
NewValue ==
    /\ Cardinality(Live(heap)) < MaxNodes
    /\ \E v \in NodeVals, p \in Owned(heap) :
          \E n \in {new_value(heap, v, p)} :
             /\ heap' = n.heap
             /\ root' = n.node
             /\ tlog' = Append(tlog, NodeCall("new_value", TRUE, << v, p >>))
    /\ UNCHANGED << lines, tpc, tidx, tmag, listVars >>

\* Node::new_pair(left, right): the caller gives up two of its boxes; the
\* function returns Box<Self>, a node, on every call
NewPair ==
    /\ Cardinality(Live(heap)) < MaxNodes
    /\ \E l \in Owned(heap), r \in Owned(heap) :
          /\ l # r
          /\ \E n \in {new_pair(heap, l, r)} :
                /\ heap' = n.heap
                /\ root' = n.node
                /\ tlog' = Append(tlog, NodeCall("new_pair", TRUE, << l, r >>))
    /\ UNCHANGED << lines, tpc, tidx, tmag, listVars >>

NodeNext ==
    \/ NewOrphanValue
    \/ NewValue
    \/ NewPair

NodeSpec == NodeInit /\ [][NodeNext]_vars

-----------------------------------------------------------------------------
(* A caller of the parser of the flattened engine: lines holds one line of *)
(* text, any string of at most MaxText characters, and the caller parses   *)
(* it once.  lpc tells how from_str came back: "done" for Ok, "error" for  *)
(* Err(ListParseError), "panic" for the overflow of the u8 depth.          *)

\* the characters of the texts: both brackets, the comma, a digit and a
\* character that is none of these
TextChars == {"[", "]", ",", "1", "x"}

RECURSIVE Texts(_)
\* the texts of at most n characters
Texts(n) ==
    IF n = 0 THEN {<< >>}
    ELSE Texts(n - 1) \cup
         {Append(s, ch) : s \in {t \in Texts(n - 1) : Len(t) = n - 1}, ch \in TextChars}

ParseInit ==
    /\ lines \in {<< s >> : s \in Texts(MaxText)}
    /\ heap = << >>
    /\ root = 0
    /\ tpc = "idle"
    /\ tidx = 0
    /\ tlog = << >>
    /\ tmag = -1
    /\ items = << >>
    /\ lpc = "idle"
    /\ lidx = 0
    /\ llog = << >>
    /\ lmag = -1

\* s.parse::<SnailfishNumber>()
FromStr ==
    /\ llog = << >>
    /\ \E r \in {from_str(lines[1])} :
          /\ items' = r.items
          /\ lpc' = CASE r.result = "Ok" -> "done"
                      [] r.result = "ListParseError" -> "error"
                      [] r.result = "Overflow" -> "panic"
          /\ llog' = Append(llog, Call("from_str", r.result = "Ok"))
    /\ lidx' = 1
    /\ UNCHANGED << lines, lmag, treeVars >>

ParseNext == FromStr

ParseSpec == ParseInit /\ [][ParseNext]_vars

-----------------------------------------------------------------------------
(* What the properties speak of *)

\* every input line is a reduced number
LinesReduced == \A i \in 1..Len(lines) : IsReducedNum(lines[i])

\* the number the tree stands for, and its leaves in reading order
TreeNum == ToNum(heap, root)
TreeItems == NumItems(TreeNum, 0, "Left")

RECURSIVE Unflatten(_, _, _)
\* reads one number at depth d from the items at index i on, by depths alone
Unflatten(its, i, d) ==
    IF i > Len(its) \/ its[i].depth < d THEN [ok |-> FALSE, num |-> << >>, next |-> i]
    ELSE IF its[i].depth = d THEN [ok |-> TRUE, num |-> L(its[i].value), next |-> i + 1]
    ELSE LET l == Unflatten(its, i, d + 1)
         IN IF ~ l.ok THEN l
            ELSE LET r == Unflatten(its, l.next, d + 1)
                 IN IF ~ r.ok THEN r
                    ELSE [ok |-> TRUE, num |-> P(l.num, r.num), next |-> r.next]

\* the items are the leaves of some number
WellFormed(its) ==
    LET u == Unflatten(its, 1, 0) IN u.ok /\ u.next = Len(its) + 1

\* the number the items stand for, and its leaves with their true positions
ListNum == Unflatten(items, 1, 0).num
ListItems == NumItems(ListNum, 0, "Left")

RECURSIVE Proj(_)
\* values and depths of items, positions left out
Proj(its) ==
    IF its = << >> THEN << >>
    ELSE << [value |-> its[1].value, depth |-> its[1].depth] >> \o Proj(Tail(its))

\* the leaves of the tree as [value, depth]
TreeLeaves == NumLeaves(TreeNum, 0)

RECURSIVE LeafAddrs(_, _)
\* the addresses of the leaves below a, in reading order
LeafAddrs(h, a) ==
    IF h[a].kind = "Leaf" THEN << a >>
    ELSE LeafAddrs(h, h[a].left) \o LeafAddrs(h, h[a].right)

RECURSIVE Spans(_, _, _)
\* for every node from a down, the indexes of the first and the last leaf of
\* its subtree among the leaves of the tree, the first leaf below a being at i
Spans(h, a, i) ==
    IF h[a].kind = "Leaf" THEN {[node |-> a, first |-> i, last |-> i]}
    ELSE LET l == Spans(h, h[a].left, i)
             mid == (CHOOSE sp \in l : sp.node = h[a].left).last
             r == Spans(h, h[a].right, mid + 1)
         IN {[node |-> a, first |-> i,
              last |-> (CHOOSE sp \in r : sp.node = h[a].right).last]} \cup l \cup r

\* the leaf just before, just after, index i of the leaves ls, as an Option
LeafBefore(ls, i) == IF i = 1 THEN None ELSE Some(ls[i - 1])
LeafAfter(ls, i) == IF i = Len(ls) THEN None ELSE Some(ls[i + 1])

\* the least index of S
Lowest(S) == CHOOSE i \in S : \A j \in S : i <= j

\* items i and i+1 are the two leaf children of one pair
SiblingPair(its, i) ==
    /\ i < Len(its)
    /\ its[i].depth = its[i + 1].depth
    /\ its[i].position = "Left"
    /\ its[i + 1].position = "Right"

\* the pairs of two leaves nested inside four pairs or more, by the index of
\* their left leaf
Explodable(its) == {i \in 1..Len(its) : SiblingPair(its, i) /\ its[i].depth >= 5}

\* the leaves of 10 or more
Splittable(ls) == {i \in 1..Len(ls) : ls[i].value >= 10}

\* the leaves after the pair at i, i+1 explodes
ExplodeEffect(ls, i) ==
    LET n == Len(ls)
        before == IF i = 1 THEN << >>
                  ELSE SubSeq(ls, 1, i - 2) \o
                       << [ls[i - 1] EXCEPT !.value = @ + ls[i].value] >>
        after == IF i + 2 > n THEN << >>
                 ELSE << [ls[i + 2] EXCEPT !.value = @ + ls[i + 1].value] >> \o
                      SubSeq(ls, i + 3, n)
    IN before \o << [value |-> 0, depth |-> ls[i].depth - 1] >> \o after

\* the leaves after the leaf at i splits
SplitEffect(ls, i) ==
    LET v == ls[i].value
        half == v \div 2
    IN SubSeq(ls, 1, i - 1) \o
       << [value |-> half, depth |-> ls[i].depth + 1],
          [value |-> v - half, depth |-> ls[i].depth + 1] >> \o
       SubSeq(ls, i + 1, Len(ls))

\* a call of op by the tree engine, by the flattened engine
TreeCall(op) == tpc = op /\ Len(tlog') = Len(tlog) + 1
ListCall(op) == lpc = op /\ Len(llog') = Len(llog) + 1

\* log holds, back to back, the calls of seq
HasRun(log, seq) ==
    \E k \in 0..(Len(log) - Len(seq)) :
        \A j \in 1..Len(seq) : log[k + j] = seq[j]

-----------------------------------------------------------------------------
(* C1: for reduced a and b, add(a, b) returns a reduced number: when add   *)
(* has returned, no leaf is 10 or more and no pair is nested inside four   *)
(* pairs, in the tree engine and in the flattened engine.                  *)
C1_AddReturnsReduced ==
    LinesReduced =>
        /\ tpc = "done" => LeavesReduced(TreeItems)
        /\ lpc = "done" => LeavesReduced(items)

\* an add that needed an explode and a split has returned in both engines
C1_Witness ==
    /\ LinesReduced
    /\ tpc = "done" /\ lpc = "done" /\ tidx = 2 /\ lidx = 2
    /\ ~ Called(tlog, "reduce") /\ ~ Called(llog, "reduce")
    /\ HasRun(tlog, << Call("try_explode", TRUE) >>)
    /\ HasRun(tlog, << Call("try_split", TRUE) >>)
    /\ HasRun(llog, << Call("try_explode", TRUE) >>)
    /\ HasRun(llog, << Call("try_split", TRUE) >>)

(* C2: reduce starts with try_explode, and moves try_explode ->            *)
(* try_explode when it returned true, try_explode -> try_split when it     *)
(* returned false, try_split -> try_explode when it returned true and      *)
(* try_split -> done when it returned false; so try_split is only called   *)
(* right after a try_explode that returned false.                          *)
ReduceTransition(pc, log, pcNext, logNext) ==
    LET call == Last(logNext)
    IN /\ call.op \in {"add", "reduce"} => pcNext = "try_explode"
       /\ pc \in {"try_explode", "try_split"} => call.op = pc
       /\ call.op = "try_explode" =>
             /\ pc = "try_explode"
             /\ pcNext = IF call.ret THEN "try_explode" ELSE "try_split"
       /\ call.op = "try_split" =>
             /\ pc = "try_split"
             /\ Last(log) = Call("try_explode", FALSE)
             /\ pcNext = IF call.ret THEN "try_explode" ELSE "done"

C2_ReduceTransitions ==
    [][/\ Len(tlog') = Len(tlog) + 1 => ReduceTransition(tpc, tlog, tpc', tlog')
       /\ Len(llog') = Len(llog) + 1 => ReduceTransition(lpc, llog, lpc', llog')]_vars

\* both engines went explode scan, split, explode, and came to done
C2_Witness ==
    /\ tpc = "done" /\ lpc = "done"
    /\ HasRun(tlog, << Call("try_explode", FALSE), Call("try_split", TRUE),
                       Call("try_explode", TRUE) >>)
    /\ HasRun(llog, << Call("try_explode", FALSE), Call("try_split", TRUE),
                       Call("try_explode", TRUE) >>)
    /\ Last(tlog) = Call("try_split", FALSE)
    /\ Last(llog) = Call("try_split", FALSE)

(* C3: reduce terminates: once entered on the pair of two reduced numbers, *)
(* the loop reaches done, in the tree engine and in the flattened engine.  *)
C3_ReduceTerminates ==
    /\ (LinesReduced /\ tpc = "try_explode") ~> (tpc = "done")
    /\ (LinesReduced /\ lpc = "try_explode") ~> (lpc = "done")

\* a reduce that exploded and split several times has come to done
C3_Witness ==
    /\ LinesReduced
    /\ tpc = "done" /\ lpc = "done"
    /\ HasRun(tlog, << Call("try_split", TRUE), Call("try_explode", TRUE),
                       Call("try_explode", FALSE), Call("try_split", TRUE) >>)
    /\ HasRun(llog, << Call("try_split", TRUE), Call("try_explode", TRUE),
                       Call("try_explode", FALSE), Call("try_split", TRUE) >>)

(* C4: on a number that is already reduced, every call reduce makes        *)
(* returns false and leaves the number as it was: zero explodes, zero      *)
(* splits, tree and items unchanged.                                       *)
C4_ReduceIdempotent ==
    [][/\ (Len(tlog') = Len(tlog) + 1 /\ tpc \in {"try_explode", "try_split"}
              /\ LeavesReduced(TreeItems))
          => (~ Last(tlog').ret /\ heap' = heap /\ root' = root)
       /\ (Len(llog') = Len(llog) + 1 /\ lpc \in {"try_explode", "try_split"}
              /\ LeavesReduced(items))
          => (~ Last(llog').ret /\ items' = items)]_vars

\* reduce was called on the result of an add that had exploded, and returned
C4_Witness ==
    /\ LinesReduced
    /\ tpc = "done" /\ lpc = "done"
    /\ HasRun(tlog, << Call("try_explode", TRUE) >>)
    /\ HasRun(tlog, << Call("reduce", TRUE), Call("try_explode", FALSE),
                       Call("try_split", FALSE) >>)
    /\ HasRun(llog, << Call("reduce", TRUE), Call("try_explode", FALSE),
                       Call("try_split", FALSE) >>)

(* C5: a successful explode of the tree engine adds the left value of the   *)
(* selected pair to the leaf just left of it in reading order, if there is  *)
(* one, the right value to the leaf just right of it, if there is one, and  *)
(* puts a leaf 0 in place of the pair; all other leaves keep their values   *)
(* and their depths.                                                        *)
C5_ExplodeEffect ==
    [][(TreeCall("try_explode") /\ Last(tlog').ret) =>
          /\ Explodable(TreeItems) # {}
          /\ TreeLeaves' = ExplodeEffect(TreeLeaves, Lowest(Explodable(TreeItems)))]_vars

\* an explode has just put a 0 between two other leaves
C5_Witness ==
    /\ tlog # << >> /\ Last(tlog) = Call("try_explode", TRUE)
    /\ \E i \in 2..(Len(TreeLeaves) - 1) :
          /\ TreeLeaves[i] = [value |-> 0, depth |-> 4]
          /\ TreeLeaves[i - 1].value >= 10
          /\ TreeLeaves[i + 1].value >= 10

C7_TrySplit ==
    [][/\ TreeCall("try_split") =>
             /\ Last(tlog').ret <=> (Splittable(TreeLeaves) # {})
             /\ Last(tlog').ret =>
                   TreeLeaves' = SplitEffect(TreeLeaves, Lowest(Splittable(TreeLeaves)))
             /\ ~ Last(tlog').ret => TreeLeaves' = TreeLeaves
       /\ ListCall("try_split") =>
             /\ Last(llog').ret <=> (Splittable(items) # {})
             /\ Last(llog').ret =>
                   Proj(items') = SplitEffect(Proj(items), Lowest(Splittable(items)))
             /\ ~ Last(llog').ret => items' = items
       /\ (TreeCall("try_split") /\ TreeNum = L(10)) => TreeNum' = P(L(5), L(5))
       /\ (TreeCall("try_split") /\ TreeNum = L(11)) => TreeNum' = P(L(5), L(6))
       /\ (TreeCall("try_split") /\ TreeNum = L(12)) => TreeNum' = P(L(6), L(6))]_vars

\* both engines have just split an odd leaf that an explode had made
C7_Witness ==
    /\ LinesReduced
    /\ tlog # << >> /\ Last(tlog) = Call("try_split", TRUE)
    /\ llog # << >> /\ Last(llog) = Call("try_split", TRUE)
    /\ Proj(items) = TreeLeaves
    /\ \E i \in 1..(Len(items) - 1) :
          /\ SiblingPair(items, i)
          /\ items[i + 1].value = items[i].value + 1
          /\ items[i].value >= 5

(* C8: the magnitude of a leaf is its value and the magnitude of a pair is  *)
(* 3 times the magnitude of its left element plus 2 times the magnitude of  *)
(* its right element: [9,1] gives 29 and [[9,1],[1,9]] gives 129.           *)
C8_Magnitude ==
    tmag # -1 =>
        /\ tmag = NumMagnitude(TreeNum)
        /\ TreeNum = P(L(9), L(1)) => tmag = 29
        /\ TreeNum = P(P(L(9), L(1)), P(L(1), L(9))) => tmag = 129

\* the magnitude of [[9,1],[1,9]] has been taken
C8_Witness ==
    /\ lines = << P(P(L(9), L(1)), P(L(1), L(9))) >>
    /\ tmag = 129

(* C9: for all valid inputs the tree engine and the flattened engine hold   *)
(* the same number after every add of a fold (the same leaf values at the   *)
(* same depths, in order) and report the same magnitude.                    *)
C9_SameNumberSameMagnitude ==
    /\ (tpc = "done" /\ lpc = "done" /\ tidx >= 2 /\ lidx = tidx) =>
          Proj(items) = TreeLeaves
    /\ (TreeFinished /\ ListFinished) => (lpc # "panic" /\ lmag = tmag)

(* C10: add(a, b) is reduce applied to the pair [a, b]: when [a, b] is      *)
(* already reduced, the result is [a, b] itself, with no explode and no     *)
(* split; combine(5, 7) is [5,7].  Tree engine and flattened engine.        *)
C10_AddOfReducedPair ==
    (/\ Len(lines) = 2
     /\ IsReducedNum(P(lines[1], lines[2]))
     /\ tpc = "done" /\ lpc = "done") =>
        /\ TreeNum = P(lines[1], lines[2])
        /\ Proj(items) = NumLeaves(P(lines[1], lines[2]), 0)
        /\ \A i \in 1..Len(tlog) : tlog[i].op \in {"try_explode", "try_split"} => ~ tlog[i].ret
        /\ \A i \in 1..Len(llog) : llog[i].op \in {"try_explode", "try_split"} => ~ llog[i].ret

(* C11: after parsing and after every add, try_explode and try_split the   *)
(* root has no parent pointer and every other node's parent pointer        *)
(* designates the branch that holds it as left or right child: check_legs  *)
(* passes on the root.                                                     *)
C11_ParentLinks ==
    /\ parent(heap, root) = None
    /\ check_legs(heap, root)
    /\ \A a \in Subtree(heap, root) \ {root} :
          /\ parent(heap, a) # None
          /\ heap[parent(heap, a)[1]].kind = "Branch"
          /\ a \in {heap[parent(heap, a)[1]].left, heap[parent(heap, a)[1]].right}

\* the tree has been added to, exploded and split, and the last call split
C11_Witness ==
    /\ HasRun(tlog, << Call("add", TRUE) >>)
    /\ HasRun(tlog, << Call("try_explode", TRUE) >>)
    /\ tlog # << >> /\ Last(tlog) = Call("try_split", TRUE)
    /\ \E a \in Subtree(heap, root) :
          heap[a].kind = "Leaf" /\ heap[a].up # 0 /\ heap[heap[a].up].up # 0

(* C12: new_pair(left, right) fails when either child already has a parent *)
(* pointer, and then creates no branch and leaves the parent pointers of   *)
(* both children as they were; it succeeds only when both are orphans.     *)
C12_NewPairRefusesAttached ==
    [][(Len(tlog') = Len(tlog) + 1 /\ Last(tlog').op = "new_pair") =>
          IF \E c \in {Last(tlog').args[1], Last(tlog').args[2]} : parent(heap, c) # None
          THEN ~ Last(tlog').ret /\ heap' = heap
          ELSE /\ Last(tlog').ret
               /\ branch(heap', root') # None
               /\ heap'[root'].left = Last(tlog').args[1]
               /\ heap'[root'].right = Last(tlog').args[2]]_vars

(* C13: for every node n of the tree, left_leaf(n) is the leaf just before *)
(* the first leaf of n's subtree in the reading order of the whole tree,   *)
(* none exactly when that is the first leaf of the tree; right_leaf(n) is  *)
(* the leaf just after the last leaf of n's subtree, none exactly when     *)
(* that is the last leaf.  The leftmost and rightmost descents end on the  *)
(* first and last leaf of the subtree, and a leaf returns itself.          *)
C13_LeafNeighbours ==
    LET ls == LeafAddrs(heap, root)
    IN \A span \in Spans(heap, root, 1) :
          /\ ls[span.first] = leftmost_grandchild(heap, span.node)
          /\ ls[span.last] = rightmost_grandchild(heap, span.node)
          /\ value(heap, ls[span.first]) # None /\ value(heap, ls[span.last]) # None
          /\ value(heap, span.node) # None =>
                /\ leftmost_grandchild(heap, span.node) = span.node
                /\ rightmost_grandchild(heap, span.node) = span.node
          /\ left_leaf(heap, span.node) = LeafBefore(ls, span.first)
          /\ right_leaf(heap, span.node) = LeafAfter(ls, span.last)

\* a pair that is a left child has a leaf on either side; the one on the
\* left is found above its parent, the one on the right inside a pair
C13_Witness ==
    \E n \in Subtree(heap, root) :
        /\ branch(heap, n) # None
        /\ left_leaf(heap, n) # None /\ right_leaf(heap, n) # None
        /\ left_parent(heap, n) # parent(heap, n)
        /\ branch(heap, heap[right_parent(heap, n)[1]].right) # None
        /\ tlog # << >> /\ Last(tlog) = Call("try_explode", TRUE)

RECURSIVE NumEnd(_, _)
\* the index just after the number that starts at index i of s: a run of
\* digits, or a pair "[" number "," number "]"; 0 when no number starts there
NumEnd(s, i) ==
    IF i > Len(s) THEN 0
    ELSE IF s[i] \in DigitChars
         THEN IF i < Len(s) /\ s[i + 1] \in DigitChars THEN NumEnd(s, i + 1) ELSE i + 1
    ELSE IF s[i] # "[" THEN 0
    ELSE LET l == NumEnd(s, i + 1)
         IN IF l = 0 \/ l > Len(s) \/ s[l] # "," THEN 0
            ELSE LET r == NumEnd(s, l + 1)
                 IN IF r = 0 \/ r > Len(s) \/ s[r] # "]" THEN 0 ELSE r + 1

\* the text is one pair, brackets balanced, and nothing else
WellFormedText(s) == s # << >> /\ s[1] = "[" /\ NumEnd(s, 1) = Len(s) + 1

(* C15: the parser of the flattened engine answers malformed text with the *)
(* syntax error: it neither returns a number nor aborts.  Only text that   *)
(* is a well-formed pair yields a number.                                  *)
C15_MalformedTextIsAnError ==
    (llog # << >> /\ Last(llog).op = "from_str" /\ ~ WellFormedText(lines[1])) =>
        /\ lpc = "error"
        /\ ~ Last(llog).ret

-----------------------------------------------------------------------------
(* Whole calls of add, as functions of the two operands: what self.add(    *)
(* other) returns once its reduce has run to the end.                      *)

RECURSIVE reduce_run(_, _, _)
\* the loop of reduce from the call op to its end
reduce_run(h, self, op) ==
    IF op = "done" THEN [heap |-> h, panic |-> FALSE]
    ELSE IF op = "try_explode"
         THEN The({IF r.panic THEN [heap |-> r.heap, panic |-> TRUE]
                   ELSE reduce_run(r.heap, self, reduce(op, r.ret)) :
                      r \in {try_explode(h, self)}})
    ELSE The({reduce_run(r.heap, self, reduce(op, r.ret)) : r \in {try_split(h, self)}})

\* the operands taken the other way round
add_swapped(a, b) ==
    The({The({The({ToNum(reduce_run(sfn.heap, sfn.node, "try_explode").heap, sfn.node) :
                      sfn \in {new_pair(other.heap, other.node, self.node)}}) :
                 other \in {parse(self.heap, b)}}) :
            self \in {parse(<< >>, a)}})

\* a.add(b) of the tree engine, a and b being the numbers two lines hold
add(a, b) ==
    The({The({The({ToNum(reduce_run(sfn.heap, sfn.node, "try_explode").heap, sfn.node) :
                      sfn \in {new_pair(other.heap, self.node, other.node)}}) :
                 other \in {parse(self.heap, b)}}) :
            self \in {parse(<< >>, a)}})

RECURSIVE list_reduce_run(_, _)
\* the loop of reduce of the flattened engine
list_reduce_run(its, op) ==
    IF op = "done" THEN its
    ELSE The({list_reduce_run(r.items, list_reduce(op, r.ret)) :
                 r \in {IF op = "try_explode" THEN list_try_explode(its)
                        ELSE list_try_split(its)}})

\* a.add(b) of the flattened engine, a and b being the numbers two lines hold
list_sum(a, b) ==
    The({list_reduce_run(list_add(self.items, other.items), "try_explode") :
            self \in {from_str(Text(a))}, other \in {from_str(Text(b))}})

(* C16: add is not commutative.  Whenever two different reduced pairs a    *)
(* and b have been added, a first, the sum differs from the sum of b and   *)
(* a, in both engines; [1,2] + [[3,4],5] is [[1,2],[[3,4],5]] and the sum  *)
(* the other way round is [[[3,4],5],[1,2]].                               *)
C16_AddNotCommutative ==
    (/\ Len(lines) = 2 /\ lines[1] # lines[2]
     /\ ~ IsLeafNum(lines[1]) /\ ~ IsLeafNum(lines[2])
     /\ LinesReduced
     /\ tidx = 2 /\ tpc = "done" /\ lidx = 2 /\ lpc = "done") =>
        /\ TreeNum = add(lines[1], lines[2])
        /\ TreeNum # add(lines[2], lines[1])
        /\ items = list_sum(lines[1], lines[2])
        /\ items # list_sum(lines[2], lines[1])

\* simple_addition_example has been added
C16_Witness ==
    /\ lines = << P(L(1), L(2)), P(P(L(3), L(4)), L(5)) >>
    /\ tidx = 2 /\ tpc = "done" /\ lidx = 2 /\ lpc = "done"
    /\ TreeNum = P(lines[1], lines[2])
    /\ add(lines[2], lines[1]) = P(lines[2], lines[1])
    /\ Unflatten(list_sum(lines[2], lines[1]), 1, 0).num = P(lines[2], lines[1])

RECURSIVE fold(_, _)
\* what part1 has in acc once it has added line k: reduce(|acc, item| acc.add(item))
fold(ls, k) == IF k = 1 THEN ls[1] ELSE add(fold(ls, k - 1), ls[k])

\* a is the sum of the lines before the last two, b and c are the last two
\* lines added: no grouping of the three needs a reduction step
NoStepNeeded ==
    /\ IsReducedNum(P(P(fold(lines, tidx - 2), lines[tidx - 1]), lines[tidx]))
    /\ IsReducedNum(P(fold(lines, tidx - 2), P(lines[tidx - 1], lines[tidx])))

\* the magnitude of a + (b + c)
RightGrouping ==
    NumMagnitude(add(fold(lines, tidx - 2), add(lines[tidx - 1], lines[tidx])))

(* C17 as it stands: folding is associative in magnitude.  For reduced a,  *)
(* b and c, here the sum a of the lines before and the last two lines b    *)
(* and c, the magnitude of (a + b) + c, which the run has just computed,   *)
(* equals the magnitude of a + (b + c).                                    *)
C17_FoldAssociative ==
    (tidx >= 3 /\ tpc = "done" /\ LinesReduced) =>
        magnitude(heap, root) = RightGrouping

(* C17, amended: folding is not associative in magnitude.  When neither    *)
(* [[a,b],c] nor [a,[b,c]] needs a reduction step, the magnitude of        *)
(* (a + b) + c is 9 m(a) + 6 m(b) + 2 m(c) and that of a + (b + c) is      *)
(* 3 m(a) + 6 m(b) + 4 m(c); the two are equal exactly when m(c) = 3 m(a). *)
C17_GroupingMagnitudes ==
    (tidx >= 3 /\ tpc = "done" /\ LinesReduced /\ NoStepNeeded) =>
        LET ma == NumMagnitude(fold(lines, tidx - 2))
            mb == NumMagnitude(lines[tidx - 1])
            mc == NumMagnitude(lines[tidx])
        IN /\ magnitude(heap, root) =
                 LeftWeight * (LeftWeight * ma + RightWeight * mb) + RightWeight * mc
           /\ RightGrouping =
                 LeftWeight * ma + RightWeight * (LeftWeight * mb + RightWeight * mc)
           /\ (magnitude(heap, root) = RightGrouping) <=> (mc = LeftWeight * ma)

\* [1,1] + [1,1] + [1,1]: 85 from the left, 65 from the right
C17_Witness ==
    /\ tidx = 3 /\ tpc = "done" /\ LinesReduced /\ NoStepNeeded
    /\ Last(tlog) = Call("try_split", FALSE)
    /\ lines = << P(L(1), L(1)), P(L(1), L(1)), P(L(1), L(1)) >>
    /\ magnitude(heap, root) = 85
    /\ RightGrouping = 65

RECURSIVE Nesting(_, _)
\* the number of pairs the node a is nested inside
Nesting(h, a) == IF h[a].up = 0 THEN 0 ELSE 1 + Nesting(h, h[a].up)

(* C19: while reduced numbers are added and reduced, every pair nested     *)
(* inside four pairs has two leaves as children, so no leaf is nested      *)
(* inside more than five pairs, and the assertion of explode_inner that    *)
(* the children of the exploding pair are simple values never fails: the   *)
(* tree engine does not panic.                                             *)
C19_ExplodingPairIsSimple ==
    LinesReduced =>
        /\ tpc # "panic"
        /\ \A a \in Subtree(heap, root) :
              /\ (Nesting(heap, a) = ExplodeDepth /\ branch(heap, a) # None) =>
                    /\ value(heap, heap[a].left) # None
                    /\ value(heap, heap[a].right) # None
              /\ Nesting(heap, a) <= ExplodeDepth + 1

\* in the middle of reduce a split has just made a pair nested inside four
\* pairs, which the next scan explodes
C19_Witness ==
    /\ LinesReduced
    /\ tpc = "try_explode"
    /\ tlog # << >> /\ Last(tlog) = Call("try_split", TRUE)
    /\ \E a \in Subtree(heap, root) :
          /\ Nesting(heap, a) = ExplodeDepth
          /\ branch(heap, a) # None
          /\ value(heap, heap[a].left) # None
          /\ value(heap, heap[a].right) # None

\* every line is a pair: the parser of the flattened engine read it whole
PairLines == \A i \in 1..Len(lines) : ~ IsLeafNum(lines[i])

\* the items are the leaves, in reading order, of a number, each with the
\* depth and the side its leaf has in that number
TrueItems(its) ==
    WellFormed(its) /\ its = NumItems(Unflatten(its, 1, 0).num, 0, "Left")

\* no item is nested inside more than five pairs
WithinExplodeDepth(its) == \A i \in 1..Len(its) : its[i].depth <= ListExplodeDepth

(* C20 as it stands: starting from well-formed parsed numbers, in every    *)
(* state (after parsing and after every add, try_explode and try_split)    *)
(* the items are the leaves in reading order of a well-formed number, each *)
(* with its true depth and its true side.                                  *)
C20_ItemsAreTrue ==
    PairLines => TrueItems(items)

(* C20, amended: the same, as long as no item is nested inside more than   *)
(* five pairs when try_explode is called (so it is for every sum of        *)
(* reduced numbers).  A step taken from true items with no item deeper     *)
(* than five, or from the items just parsed, leaves true items, equal to   *)
(* the leaves of the tree the tree engine holds after the same calls.      *)
C20_ItemsStayTrue ==
    [][(/\ PairLines
        /\ Len(llog') = Len(llog) + 1
        /\ llog = << >> \/ TrueItems(items)
        /\ WithinExplodeDepth(items)) =>
            /\ TrueItems(items')
            /\ (Len(tlog') = Len(llog') /\ tpc' # "panic") => items' = TreeItems']_vars

\* try_explode has just collapsed a pair that was a right child: the item
\* before it is a Left of the same depth
C20_Witness ==
    /\ PairLines /\ TrueItems(items) /\ WithinExplodeDepth(items)
    /\ llog # << >> /\ Last(llog) = Call("try_explode", TRUE)
    /\ HasRun(llog, << Call("add", TRUE) >>)
    /\ HasRun(llog, << Call("try_split", TRUE) >>)
    /\ \E i \in 2..Len(items) :
          /\ items[i].value = 0 /\ items[i].position = "Right"
          /\ items[i - 1].position = "Left"
          /\ items[i - 1].depth = items[i].depth

\* the tree and the items stand for the same number, and both engines have
\* made the same calls so far
SameNumber ==
    /\ Len(tlog) = Len(llog)
    /\ tpc # "panic" /\ lpc # "panic"
    /\ WellFormed(items)
    /\ items = TreeItems

WithinMagnitudeLevels(its) == \A i \in 1..Len(its) : its[i].depth <= MagnitudeTopLevel

Holders(S, h, a) ==
    {b \in S : h[b].kind = "Branch" /\ a \in {h[b].left, h[b].right}}

(* C23: is_left returns None exactly for the root.  Every other node of    *)
(* the tree is the child of exactly one branch, on exactly one side;       *)
(* is_left returns Some(true) exactly when it is that branch's left child  *)
(* and is_right returns the negation.  This holds in every state, so also  *)
(* after splits and explodes have replaced the contents of nodes in place. *)
C23_LeftOrRight ==
    \A S \in {Subtree(heap, root)} : \A a \in S :
        /\ (is_left(heap, a) = None) <=> (a = root)
        /\ (is_right(heap, a) = None) <=> (a = root)
        /\ a # root =>
              /\ Cardinality(Holders(S, heap, a)) = 1
              /\ \A b \in Holders(S, heap, a) :
                    /\ heap[b].left # heap[b].right
                    /\ is_left(heap, a) = Some(heap[b].left = a)
                    /\ is_right(heap, a) = Some(heap[b].right = a)
                    /\ is_right(heap, a)[1] = ~ is_left(heap, a)[1]

\* after a split and an explode, the last call an explode: a leaf that is
\* a right child has a left sibling of the same value
C23_Witness ==
    /\ HasRun(tlog, << Call("try_split", TRUE) >>)
    /\ tlog # << >> /\ Last(tlog) = Call("try_explode", TRUE)
    /\ \E a \in Subtree(heap, root) :
          /\ is_right(heap, a) = Some(TRUE)
          /\ value(heap, a) # None
          /\ value(heap, heap[parent(heap, a)[1]].left) = value(heap, a)

\* the leaf that try_split takes, by its index among the leaves ls
SplitIndex(ls) == Lowest(Splittable(ls))

(* C24: within reduce, when a split replaces a leaf nested inside four     *)
(* pairs, the call reduce makes next is try_explode, and that call         *)
(* explodes exactly the pair the split has just made: nothing else         *)
(* explodes or splits in between.  Tree engine and flattened engine.       *)
C24_SplitThenExplode ==
    [][/\ (/\ TreeCall("try_split") /\ Last(tlog').ret
           /\ TreeLeaves[SplitIndex(TreeLeaves)].depth = ExplodeDepth) =>
             /\ tpc' = "try_explode"
             /\ \E r \in {try_explode(heap', root')} :
                   /\ r.ret /\ ~ r.panic
                   /\ NumLeaves(ToNum(r.heap, root'), 0) =
                         ExplodeEffect(TreeLeaves', SplitIndex(TreeLeaves))
       /\ (/\ ListCall("try_split") /\ Last(llog').ret
           /\ items[SplitIndex(items)].depth = ExplodeDepth) =>
             /\ lpc' = "try_explode"
             /\ \E r \in {list_try_explode(items')} :
                   /\ r.ret
                   /\ Proj(r.items) = ExplodeEffect(Proj(items'), SplitIndex(items))]_vars

\* a split has just made a pair nested inside four pairs while another leaf
\* of 10 or more waits; the explode comes first
C24_Witness ==
    /\ tlog # << >> /\ Last(tlog) = Call("try_split", TRUE)
    /\ llog # << >> /\ Last(llog) = Call("try_split", TRUE)
    /\ tpc = "try_explode" /\ lpc = "try_explode"
    /\ Explodable(TreeItems) # {} /\ Explodable(items) # {}
    /\ Splittable(TreeLeaves) # {} /\ Splittable(items) # {}

RECURSIVE SumValues(_)
\* the sum of the values of the leaves ls
SumValues(ls) == IF ls = << >> THEN 0 ELSE ls[1].value + SumValues(Tail(ls))

\* ls2 is ls1 with the leaf at i replaced by two leaves; every other leaf
\* keeps its place in the order, its value and its depth
OneLeafBecameTwo(ls1, ls2, i) ==
    /\ Len(ls2) = Len(ls1) + 1
    /\ \A j \in 1..(i - 1) : ls2[j] = ls1[j]
    /\ \A j \in (i + 1)..Len(ls1) : ls2[j + 1] = ls1[j]

(* C25: a successful split keeps the sum of all leaf values, makes the     *)
(* number of leaves one more, and leaves the order and the values of all   *)
(* other leaves as they were.  Tree engine and flattened engine.           *)
C25_SplitKeepsSum ==
    [][/\ (TreeCall("try_split") /\ Last(tlog').ret) =>
             /\ SumValues(TreeLeaves') = SumValues(TreeLeaves)
             /\ \E i \in 1..Len(TreeLeaves) : OneLeafBecameTwo(TreeLeaves, TreeLeaves', i)
       /\ (ListCall("try_split") /\ Last(llog').ret) =>
             /\ SumValues(items') = SumValues(items)
             /\ \E i \in 1..Len(items) : OneLeafBecameTwo(Proj(items), Proj(items'), i)]_vars

\* both engines have just split an odd leaf that has leaves on both sides
C25_Witness ==
    /\ tlog # << >> /\ Last(tlog) = Call("try_split", TRUE)
    /\ llog # << >> /\ Last(llog) = Call("try_split", TRUE)
    /\ \E i \in 2..(Len(items) - 2) :
          /\ SiblingPair(items, i)
          /\ items[i + 1].value = items[i].value + 1
          /\ items[i].value >= 5
          /\ TreeLeaves[i].value = items[i].value
          /\ TreeLeaves[i + 1].value = items[i + 1].value

\* what the explosion of the pair at i, i+1 of the leaves ls takes from the
\* sum: the value of a child that has no neighbour to receive it
LostInExplode(ls, i) ==
    (IF i = 1 THEN ls[i].value ELSE 0) + (IF i + 1 = Len(ls) THEN ls[i + 1].value ELSE 0)

(* C26: a successful explode makes the number of leaves one less and never *)
(* makes the sum of the leaf values greater: the sum is unchanged when the *)
(* exploding pair has a leaf on its left and a leaf on its right, and      *)
(* otherwise goes down by exactly the value of the child that has no       *)
(* neighbour.  Tree engine and flattened engine.                           *)
C26_ExplodeSum ==
    [][/\ (TreeCall("try_explode") /\ Last(tlog').ret) =>
             /\ Len(TreeLeaves') = Len(TreeLeaves) - 1
             /\ SumValues(TreeLeaves') <= SumValues(TreeLeaves)
             /\ SumValues(TreeLeaves') =
                   SumValues(TreeLeaves)
                      - LostInExplode(TreeLeaves, Lowest(Explodable(TreeItems)))
       /\ (ListCall("try_explode") /\ Last(llog').ret) =>
             /\ Len(items') = Len(items) - 1
             /\ SumValues(items') <= SumValues(items)
             /\ SumValues(items') =
                   SumValues(items) - LostInExplode(items, Lowest(Explodable(items)))]_vars

\* both engines have exploded more than once; the last explode took the
\* first two leaves, whose left value had no neighbour: the sum went down
C26_Witness ==
    /\ Len(lines) = 2
    /\ tlog # << >> /\ Last(tlog) = Call("try_explode", TRUE)
    /\ llog # << >> /\ Last(llog) = Call("try_explode", TRUE)
    /\ TreeLeaves[1].value = 0 /\ items[1].value = 0
    /\ SumValues(TreeLeaves) < SumValues(NumLeaves(P(lines[1], lines[2]), 0))
    /\ SumValues(items) = SumValues(TreeLeaves)
    /\ \E k \in 1..(Len(tlog) - 1) : tlog[k] = Call("try_explode", TRUE)

(* C27: a scan that fails changes nothing.  When try_explode returns false *)
(* and when try_split returns false, the tree is as it was, node by node   *)
(* (values, children, parent pointers) and the items are as they were      *)
(* (values, depths, positions).                                            *)
C27_FailedScanChangesNothing ==
    [][/\ (/\ Len(tlog') = Len(tlog) + 1
           /\ Last(tlog').op \in {"try_explode", "try_split"}
           /\ ~ Last(tlog').ret
           /\ tpc' # "panic") =>
             heap' = heap /\ root' = root
       /\ (/\ Len(llog') = Len(llog) + 1
           /\ Last(llog').op \in {"try_explode", "try_split"}
           /\ ~ Last(llog').ret) =>
             items' = items]_vars

\* reduce has ended on a number it had to explode and split: the last two
\* scans of both engines failed
C27_Witness ==
    /\ HasRun(tlog, << Call("try_explode", FALSE), Call("try_split", FALSE) >>)
    /\ HasRun(llog, << Call("try_explode", FALSE), Call("try_split", FALSE) >>)
    /\ HasRun(tlog, << Call("try_split", TRUE) >>)
    /\ HasRun(tlog, << Call("try_explode", TRUE), Call("try_explode", FALSE) >>)
    /\ tpc = "done" /\ lpc = "done"
    /\ Len(TreeLeaves) > 2 /\ items = TreeItems

\* the item it, one pair deeper
OneDeeper(it) == [value |-> it.value, depth |-> it.depth + 1, position |-> it.position]

(* C28: before its reduce, add of the flattened engine leaves the items of *)
(* the accumulator followed by the items of the line added, in their       *)
(* order, each one pair deeper, value and position as they were; the items *)
(* stand for the pair of the two numbers, the number the tree engine holds *)
(* once new_pair has paired the same two.                                  *)
C28_AddBeforeReduce ==
    [][(/\ PairLines
        /\ Len(llog') = Len(llog) + 1 /\ Last(llog').op = "add"
        /\ TrueItems(items)) =>
            LET other == NumItems(lines[lidx'], 0, "Left")
            IN /\ lidx' = lidx + 1
               /\ Len(items') = Len(items) + Len(other)
               /\ \A j \in 1..Len(items) : items'[j] = OneDeeper(items[j])
               /\ \A j \in 1..Len(other) : items'[Len(items) + j] = OneDeeper(other[j])
               /\ WellFormed(items')
               /\ Unflatten(items', 1, 0).num = P(ListNum, lines[lidx'])
               /\ (Len(tlog') = Len(llog') /\ Last(tlog').op = "add") =>
                     /\ TreeNum' = P(ListNum, lines[lidx'])
                     /\ items' = TreeItems']_vars

\* both engines have just added a line to a sum that reduce had worked on
C28_Witness ==
    /\ PairLines
    /\ tlog # << >> /\ Last(tlog) = Call("add", TRUE)
    /\ llog # << >> /\ Last(llog) = Call("add", TRUE)
    /\ HasRun(llog, << Call("try_explode", TRUE) >>)
    /\ lidx >= 3 /\ tidx = lidx
    /\ items = TreeItems
    /\ \E j \in 1..Len(items) : items[j].depth = ListExplodeDepth

-----------------------------------------------------------------------------
(* part2 of the flattened engine.  items holds `numbers`, the vector of    *)
(* the parsed lines, one item list per line; lmag is the magnitude         *)
(* reported; lpc is "error" when part2 returns Err(NoSolution).            *)

\* the lines of the inputs of part2: the pairs of two leaves and the first
\* operand of multistage_addition_example, whose sums need reducing
Part2Numbers ==
    Nums(2, ExplodeDepth) \cup
    {P(P(P(P(L(4), L(3)), L(4)), L(4)), P(L(7), P(P(L(8), L(4)), L(9))))}

RECURSIVE Part2Lines(_)
\* the inputs of at most n lines; a number may stand on several lines
Part2Lines(n) ==
    IF n = 0 THEN {<< >>}
    ELSE Part2Lines(n - 1) \cup
         {Append(ls, a) : ls \in {t \in Part2Lines(n - 1) : Len(t) = n - 1},
                          a \in Part2Numbers}

Part2Init ==
    /\ lines \in {ls \in Part2Lines(MaxPart2Lines) : Len(ls) >= 2}
    /\ heap = << >>
    /\ root = 0
    /\ tpc = "idle"
    /\ tidx = 0
    /\ tlog = << >>
    /\ tmag = -1
    /\ items = << >>
    /\ lpc = "idle"
    /\ lidx = 0
    /\ llog = << >>
    /\ lmag = -1

\* every pair of numbers passes the filter
part2_keeps_all(a, b) == TRUE

\* .filter(|(a, b)| a != b): derived PartialEq, the items are compared
part2_keeps(a, b) == a # b

\* a.clone().add(b.clone()): add with its reduce, on copies
part2_add(a, b) == list_reduce_run(list_add(a, b), "try_explode")

\* cartesian_product, filter, flat_map: the sums part2 looks at
part2_sums(numbers) ==
    UNION {{part2_add(numbers[p[1]], numbers[p[2]]),
            part2_add(numbers[p[2]], numbers[p[1]])} :
              p \in {q \in (1..Len(numbers)) \X (1..Len(numbers)) :
                        part2_keeps(numbers[q[1]], numbers[q[2]])}}

\* the greatest magnitude among the sums
max_magnitude(sums) ==
    The({CHOOSE m \in mags : \A n \in mags : n <= m :
            mags \in {{list_magnitude(sfn).value : sfn \in sums}}})

\* let numbers: Vec<SnailfishNumber> = parse(input)?.collect()
Part2Collect ==
    /\ llog = << >>
    /\ items' = [i \in 1..Len(lines) |-> from_str(Text(lines[i])).items]
    /\ lidx' = Len(lines)
    /\ llog' = Append(llog, Call("collect", TRUE))
    /\ UNCHANGED << lines, lpc, lmag, treeVars >>

\* the rest of part2: the maximum is reported, or Err(NoSolution) when no
\* pair passes the filter; numbers is only read
Part2Report ==
    /\ llog # << >> /\ Last(llog).op = "collect"
    /\ \E sums \in {part2_sums(items)} :
          IF sums = {}
          THEN lpc' = "error" /\ lmag' = lmag
          ELSE lpc' = "done" /\ lmag' = max_magnitude(sums)
    /\ llog' = Append(llog, Call("part2", lpc' = "done"))
    /\ UNCHANGED << lines, items, lidx, treeVars >>

Part2Next ==
    \/ Part2Collect
    \/ Part2Report

Part2Spec == Part2Init /\ [][Part2Next]_vars

\* the magnitudes of the sums of the lines at i and j, for the pairs of
\* positions of Pairs, computed on the numbers the lines hold
SumMagnitudes(Pairs) == {NumMagnitude(add(lines[p[1]], lines[p[2]])) : p \in Pairs}

\* the pairs of two different positions
TwoPositions == {p \in (1..Len(lines)) \X (1..Len(lines)) : p[1] # p[2]}

\* the pairs of positions that hold two different numbers
TwoNumbers == {p \in (1..Len(lines)) \X (1..Len(lines)) : lines[p[1]] # lines[p[2]]}

\* the greatest element of S
Greatest(S) == CHOOSE m \in S : \A n \in S : n <= m

\* numbers is what the parser made of the lines
NumbersAsParsed ==
    /\ Len(items) = Len(lines)
    /\ \A i \in 1..Len(lines) : items[i] = NumItems(lines[i], 0, "Left")

(* C29 as it stands: part2 reports the greatest magnitude of a + b over    *)
(* all ordered pairs (a, b) of input numbers taken from two different      *)
(* positions of the input, and leaves the input numbers as they were.      *)
C29_Part2Maximum ==
    (llog # << >> /\ Last(llog).op = "part2") =>
        /\ lpc = "done"
        /\ lmag = Greatest(SumMagnitudes(TwoPositions))
        /\ NumbersAsParsed

(* C29, amended: part2 reports the greatest magnitude of a + b over all    *)
(* ordered pairs (a, b) of input numbers that are not equal; two equal     *)
(* numbers are never added, also when they stand at different positions,   *)
(* and when all input numbers are equal part2 returns the error            *)
(* NoSolution.  The input numbers are left as they were.                   *)
C29_Part2MaximumOfUnequal ==
    (llog # << >> /\ Last(llog).op = "part2") =>
        /\ NumbersAsParsed
        /\ IF TwoNumbers = {}
           THEN lpc = "error" /\ ~ Last(llog).ret
           ELSE /\ lpc = "done"
                /\ lmag = Greatest(SumMagnitudes(TwoNumbers))

\* part2 has reported the magnitude of a sum that needed reducing, and two
\* of the three lines hold the same number
C29_Witness ==
    /\ llog # << >> /\ Last(llog).op = "part2"
    /\ lpc = "done"
    /\ Len(lines) = 3 /\ lines[1] = lines[3] /\ lines[1] # lines[2]
    /\ lmag = Greatest(SumMagnitudes(TwoNumbers))
    /\ \E p \in TwoNumbers :
          /\ ~ IsReducedNum(P(lines[p[1]], lines[p[2]]))
          /\ lmag = NumMagnitude(add(lines[p[1]], lines[p[2]]))

=============================================================================
